---- MODULE Spec2Model ----
(***************************************************************************)
(* animal-age (src/main.rs): conversion of an animal's age to human years  *)
(* and the terminal report built from it.                                  *)
(*                                                                         *)
(* Numbers.  The program computes in f32.  The model computes exactly, in  *)
(* fixed-point integers:                                                   *)
(*   - an age is an integer number of tenths of a year (age 1.5 is 15);    *)
(*   - the result of human_years is an integer number of hundredths        *)
(*     (tenths of a year times tenths of a rate);                          *)
(*   - the rounded human_age of run_calc is an integer number of tenths;   *)
(*   - a lifespan (max_lifespan) is a whole number of years;               *)
(*   - a proportion (pct, animal_progress, human_progress) is the pair     *)
(*     [num, den] of the division that produces it.                        *)
(* NaN, the infinities and -0.0 are outside the model.                     *)
(*                                                                         *)
(* Strings.  A string that the program inspects character by character     *)
(* (a species name, a key) is a sequence of one-character strings.  The    *)
(* input alphabet is ASCII.                                                *)
(***************************************************************************)
EXTENDS Integers, Sequences, FiniteSets, TLC

VARIABLES
    args,         \* the parsed command line (struct Args)
    term_width,   \* columns reported by Term::stdout().size()
    pc,           \* position of the run
    idx,          \* index of the next element of the loop in progress
    results,      \* run_calc's Vec<ResultRow>
    label_width,  \* run_calc's label_width, once computed
    error,        \* the value main_inner returned: Ok or an AppError
    io,           \* everything written so far, stdout and stderr, in order
    exit_code,    \* the process's exit code, -1 while it runs
    fn_animal,    \* conversion harness: the species
    fn_a1,        \* conversion harness: the first age
    fn_a2,        \* conversion harness: the second age
    fn_h1,        \* conversion harness: human_years of the first age
    fn_h2,        \* conversion harness: human_years of the second age
    lk_name,      \* lookup harness: the name looked up
    lk_result     \* lookup harness: what Animal::from_str returned

vars == <<args, term_width, pc, idx, results, label_width, error, io, exit_code,
          fn_animal, fn_a1, fn_a2, fn_h1, fn_h2, lk_name, lk_result>>

progVars == <<args, term_width, idx, results, label_width, error, io, exit_code>>
fnVars == <<fn_animal, fn_a1, fn_a2, fn_h1, fn_h2>>
lkVars == <<lk_name, lk_result>>

----------------------------------------------------------------------------
(* Bounds *)

\* Largest number of names given to --type.
MaxNames == 2

\* Largest age, in tenths of a year, the conversion harness tries.
MaxAge10 == 100

\* Longest name over the small alphabet the lookup harness tries.
MaxLen == 3

----------------------------------------------------------------------------
(* Characters and strings *)

UpperChars == <<"A", "B", "C", "D", "E", "F", "G", "H", "I", "J", "K", "L", "M",
                "N", "O", "P", "Q", "R", "S", "T", "U", "V", "W", "X", "Y", "Z">>

LowerChars == <<"a", "b", "c", "d", "e", "f", "g", "h", "i", "j", "k", "l", "m",
                "n", "o", "p", "q", "r", "s", "t", "u", "v", "w", "x", "y", "z">>

\* The lower-case letter of each upper-case letter.
lower_table ==
    [c \in {UpperChars[i] : i \in 1..Len(UpperChars)} |->
        LowerChars[CHOOSE i \in 1..Len(UpperChars) : UpperChars[i] = c]]

\* char::to_lowercase on ASCII: an upper-case letter maps to its lower-case
\* letter, every other character to itself.
ToLowerChar(c) == IF c \in DOMAIN lower_table THEN lower_table[c] ELSE c

\* str::to_lowercase
to_lowercase(s) == [i \in 1..Len(s) |-> ToLowerChar(s[i])]

Min(a, b) == IF a <= b THEN a ELSE b
Max(a, b) == IF a >= b THEN a ELSE b

----------------------------------------------------------------------------
(* enum Animal and its attributes *)

Animal == {"SmallDog", "MediumDog", "BigDog", "Cat", "Horse", "Pig",
           "Parakeet", "Snake", "Goldfish", "Rabbit", "Hamster"}

\* The declaration order, as list_animals walks it.
animal_variants == <<"SmallDog", "MediumDog", "BigDog", "Cat", "Horse", "Pig",
                     "Parakeet", "Snake", "Goldfish", "Rabbit", "Hamster">>

None == [some |-> FALSE]
Some(v) == [some |-> TRUE, val |-> v]

small_dog == <<"s", "m", "a", "l", "l", "_", "d", "o", "g">>
medium_dog == <<"m", "e", "d", "i", "u", "m", "_", "d", "o", "g">>
big_dog == <<"b", "i", "g", "_", "d", "o", "g">>
cat == <<"c", "a", "t">>
horse == <<"h", "o", "r", "s", "e">>
pig == <<"p", "i", "g">>
parakeet == <<"p", "a", "r", "a", "k", "e", "e", "t">>
snake == <<"s", "n", "a", "k", "e">>
goldfish == <<"g", "o", "l", "d", "f", "i", "s", "h">>
rabbit == <<"r", "a", "b", "b", "i", "t">>
hamster == <<"h", "a", "m", "s", "t", "e", "r">>

\* The arms of Animal::from_str's match, on the lower-cased name.
match_key(l) ==
    CASE l = small_dog -> Some("SmallDog")
      [] l = medium_dog -> Some("MediumDog")
      [] l = big_dog -> Some("BigDog")
      [] l = cat -> Some("Cat")
      [] l = horse -> Some("Horse")
      [] l = pig -> Some("Pig")
      [] l = parakeet -> Some("Parakeet")
      [] l = snake -> Some("Snake")
      [] l = goldfish -> Some("Goldfish")
      [] l = rabbit -> Some("Rabbit")
      [] l = hamster -> Some("Hamster")
      [] OTHER -> None

\* Animal::from_str with the name matched as given, not lower-cased.
from_str_exact(s) == match_key(s)

\* Animal::from_str: `match s.to_lowercase().as_str()`
from_str(s) == match_key(to_lowercase(s))

\* Animal::key
key(a) ==
    CASE a = "SmallDog" -> small_dog
      [] a = "MediumDog" -> medium_dog
      [] a = "BigDog" -> big_dog
      [] a = "Cat" -> cat
      [] a = "Horse" -> horse
      [] a = "Pig" -> pig
      [] a = "Parakeet" -> parakeet
      [] a = "Snake" -> snake
      [] a = "Goldfish" -> goldfish
      [] a = "Rabbit" -> rabbit
      [] a = "Hamster" -> hamster

\* Animal::description
description(a) ==
    CASE a = "SmallDog" -> "Small dog (e.g., terrier)"
      [] a = "MediumDog" -> "Medium dog (e.g., spaniel)"
      [] a = "BigDog" -> "Large dog (e.g., retriever)"
      [] a = "Cat" -> "Domestic cat"
      [] a = "Horse" -> "Horse"
      [] a = "Pig" -> "Pig"
      [] a = "Parakeet" -> "Parakeet / budgie"
      [] a = "Snake" -> "Common pet snake"
      [] a = "Goldfish" -> "Goldfish"
      [] a = "Rabbit" -> "Rabbit"
      [] a = "Hamster" -> "Hamster"

\* Animal::max_lifespan, in years
max_lifespan(a) ==
    CASE a = "SmallDog" -> 16
      [] a = "MediumDog" -> 14
      [] a = "BigDog" -> 10
      [] a = "Cat" -> 18
      [] a = "Horse" -> 30
      [] a = "Pig" -> 20
      [] a = "Parakeet" -> 10
      [] a = "Snake" -> 20
      [] a = "Goldfish" -> 15
      [] a = "Rabbit" -> 12
      [] a = "Hamster" -> 3

\* Animal::human_years with every arm anchored at the origin: the horse's
\* 6.5 is dropped.
human_years_no_offset(a, age) ==
    CASE a = "SmallDog" -> IF age <= 20 THEN age * 125 ELSE 2500 + (age - 20) * 45
      [] a = "MediumDog" -> IF age <= 20 THEN age * 105 ELSE 2100 + (age - 20) * 50
      [] a = "BigDog" -> IF age <= 20 THEN age * 90 ELSE 1800 + (age - 20) * 70
      [] a = "Cat" -> IF age <= 20 THEN age * 125 ELSE 2500 + (age - 20) * 40
      [] a = "Horse" -> age * 40
      [] a = "Pig" -> age * 50
      [] a = "Parakeet" -> age * 50
      [] a = "Snake" -> age * 53
      [] a = "Goldfish" -> age * 50
      [] a = "Rabbit" -> IF age <= 20 THEN age * 120 ELSE 2400 + (age - 20) * 40
      [] a = "Hamster" -> age * 250

\* Animal::human_years with the cat's adult base one year too low, so that
\* the value drops across the breakpoint.
human_years_low_base(a, age) ==
    CASE a = "SmallDog" -> IF age <= 20 THEN age * 125 ELSE 2500 + (age - 20) * 45
      [] a = "MediumDog" -> IF age <= 20 THEN age * 105 ELSE 2100 + (age - 20) * 50
      [] a = "BigDog" -> IF age <= 20 THEN age * 90 ELSE 1800 + (age - 20) * 70
      [] a = "Cat" -> IF age <= 20 THEN age * 125 ELSE 2400 + (age - 20) * 40
      [] a = "Horse" -> 650 + age * 40
      [] a = "Pig" -> age * 50
      [] a = "Parakeet" -> age * 50
      [] a = "Snake" -> age * 53
      [] a = "Goldfish" -> age * 50
      [] a = "Rabbit" -> IF age <= 20 THEN age * 120 ELSE 2400 + (age - 20) * 40
      [] a = "Hamster" -> age * 250

\* Animal::human_years with the small dog's adult rate given to the cat.
human_years_swapped_rate(a, age) ==
    CASE a = "SmallDog" -> IF age <= 20 THEN age * 125 ELSE 2500 + (age - 20) * 45
      [] a = "MediumDog" -> IF age <= 20 THEN age * 105 ELSE 2100 + (age - 20) * 50
      [] a = "BigDog" -> IF age <= 20 THEN age * 90 ELSE 1800 + (age - 20) * 70
      [] a = "Cat" -> IF age <= 20 THEN age * 125 ELSE 2500 + (age - 20) * 45
      [] a = "Horse" -> 650 + age * 40
      [] a = "Pig" -> age * 50
      [] a = "Parakeet" -> age * 50
      [] a = "Snake" -> age * 53
      [] a = "Goldfish" -> age * 50
      [] a = "Rabbit" -> IF age <= 20 THEN age * 120 ELSE 2400 + (age - 20) * 40
      [] a = "Hamster" -> age * 250

\* Animal::human_years: age in tenths of a year, result in hundredths.
\* age <= 2.0 is age <= 20; age * 12.5 is age * 125; 25.0 is 2500.
human_years(a, age) ==
    CASE a = "SmallDog" -> IF age <= 20 THEN age * 125 ELSE 2500 + (age - 20) * 45
      [] a = "MediumDog" -> IF age <= 20 THEN age * 105 ELSE 2100 + (age - 20) * 50
      [] a = "BigDog" -> IF age <= 20 THEN age * 90 ELSE 1800 + (age - 20) * 70
      [] a = "Cat" -> IF age <= 20 THEN age * 125 ELSE 2500 + (age - 20) * 40
      [] a = "Horse" -> 650 + age * 40
      [] a = "Pig" -> age * 50
      [] a = "Parakeet" -> age * 50
      [] a = "Snake" -> age * 53
      [] a = "Goldfish" -> age * 50
      [] a = "Rabbit" -> IF age <= 20 THEN age * 120 ELSE 2400 + (age - 20) * 40
      [] a = "Hamster" -> age * 250

----------------------------------------------------------------------------
(* suggest_animal *)

\* strsim::levenshtein(a, b): the edit distance of two character sequences,
\* by the two-row dynamic programme.  Row i holds, at index j + 1, the
\* distance between the first i characters of a and the first j of b.
RECURSIVE LevCells(_, _, _, _, _)
LevCells(a, b, i, prev, cur) ==
    LET j == Len(cur)
    IN  IF j > Len(b)
        THEN cur
        ELSE LevCells(a, b, i, prev,
                 Append(cur, Min(Min(prev[j + 1] + 1, cur[j] + 1),
                                 prev[j] + (IF a[i] = b[j] THEN 0 ELSE 1))))

RECURSIVE LevRows(_, _, _, _)
LevRows(a, b, i, prev) ==
    IF i > Len(a)
    THEN prev[Len(b) + 1]
    ELSE LevRows(a, b, i + 1, LevCells(a, b, i, prev, <<i>>))

levenshtein(a, b) == LevRows(a, b, 1, [j \in 1..(Len(b) + 1) |-> j - 1])

\* The array `animals` of suggest_animal, in its order.
suggest_keys == <<small_dog, medium_dog, big_dog, cat, horse, pig, parakeet,
                  snake, goldfish, rabbit, hamster>>

\* Iterator::min_by_key over suggest_keys from index i on, best being the
\* least element so far and best_d its distance: a later element replaces
\* it only when strictly nearer, so the first of equally near ones wins.
RECURSIVE min_from(_, _, _, _)
min_from(input, i, best, best_d) ==
    IF i > Len(suggest_keys)
    THEN best
    ELSE IF levenshtein(input, suggest_keys[i]) < best_d
         THEN min_from(input, i + 1, suggest_keys[i], levenshtein(input, suggest_keys[i]))
         ELSE min_from(input, i + 1, best, best_d)

min_by_key(input) ==
    min_from(input, 2, suggest_keys[1], levenshtein(input, suggest_keys[1]))

\* suggest_animal with the filter admitting distance 3 as well.
suggest_animal_le3(input) ==
    LET best == min_by_key(input)
    IN  IF levenshtein(input, best) <= 3 THEN Some(best) ELSE None

\* suggest_animal
suggest_animal(input) ==
    LET best == min_by_key(input)
    IN  IF levenshtein(input, best) < 3 THEN Some(best) ELSE None

----------------------------------------------------------------------------
(* run_calc's arithmetic and show_lifespan_bars *)

\* const HUMAN_MAX: f32 = 80.0, in tenths of a year
HUMAN_MAX == 800

\* main_inner's test `age < 0.0`, one tenth of a year off.
age_is_negative_off(age) == age < -1

\* main_inner's test `age < 0.0`
age_is_negative(age) == age < 0

\* run_calc's test `age > animal_max * 1.5`: age in tenths, animal_max in
\* years, so animal_max * 1.5 is animal_max * 15 tenths.
exceeds_lifespan(age, animal_max) == age > animal_max * 15

\* f32::round: to the nearest integer, halves away from zero; x is h / 10.
round_div10(h) == IF h >= 0 THEN (h + 5) \div 10 ELSE -((5 - h) \div 10)

\* run_calc's `(animal_type.human_years(age) * 10.0).round() / 10.0`:
\* hundredths in human_years, tenths out.
rounded_human_age(animal_type, age) == round_div10(human_years(animal_type, age))

CYAN == <<"\\x1b[36m">>
YELLOW == <<"\\x1b[33m">>
RED == <<"\\x1b[31m">>
RESET == <<"\\x1b[0m">>

\* The escape sequences of mod color, each one token of a rendered bar.
EscapeCodes == {CYAN[1], YELLOW[1], RED[1], RESET[1]}

\* str::repeat
repeat(c, n) == [i \in 1..n |-> c]

\* show_lifespan_bars' color_code with the two thresholds exchanged.
color_code_swapped(pct, no_color) ==
    IF no_color THEN <<>>
    ELSE IF pct.num * 10 >= pct.den * 6 THEN RED
    ELSE IF pct.num * 10 >= pct.den * 8 THEN YELLOW
    ELSE CYAN

\* show_lifespan_bars' color_code: pct >= 0.8, pct >= 0.6, on pct = num / den.
color_code(pct, no_color) ==
    IF no_color THEN <<>>
    ELSE IF pct.num * 10 >= pct.den * 8 THEN RED
    ELSE IF pct.num * 10 >= pct.den * 6 THEN YELLOW
    ELSE CYAN

\* show_lifespan_bars' total_width: saturating_sub, then min(50).
total_width(tw, lw) ==
    LET gutter == lw + 8
        available_width == IF tw >= gutter THEN tw - gutter ELSE 0
    IN  Min(available_width, 50)

\* show_lifespan_bars' format!("{}{} {}{}", ...): colour, the filled glyphs, a
\* space, the empty cells, the reset.
bar_string(pct, filled, empty, no_color) ==
    color_code(pct, no_color) \o repeat("=", filled) \o <<" ">> \o repeat(" ", empty)
        \o (IF no_color THEN <<>> ELSE RESET)

\* The line show_lifespan_bars prints, given the terminal's width tw.  label
\* is the label padded to label_width by {:label_width$}; pct is the value
\* that {:>3.0}% prints, times 100.
show_lifespan_bars(label, age, max, no_color, lw, tw) ==
    LET pct == [num |-> age, den |-> max]
        filled == (age * total_width(tw, lw)) \div max
        empty == total_width(tw, lw) - filled
    IN  [stream |-> "out", kind |-> "bar",
         label |-> label \o repeat(" ", lw - Len(label)),
         bar |-> bar_string(pct, filled, empty, no_color),
         pct |-> pct]

\* "Human"
Human == <<"H", "u", "m", "a", "n">>

\* format!("human({})", chart_label)
human_label(chart_label) == <<"h", "u", "m", "a", "n", "(">> \o chart_label \o <<")">>

\* print_json: the Output record serialised
print_json(animal, age, human_age, animal_max) ==
    [stream |-> "out", kind |-> "json",
     animal |-> animal,
     age |-> age,
     human_age |-> human_age,
     animal_max_lifespan |-> animal_max,
     human_max_lifespan |-> HUMAN_MAX,
     animal_progress |-> [num |-> age, den |-> animal_max * 10],
     human_progress |-> [num |-> human_age, den |-> HUMAN_MAX]]

\* list_animals' output
list_animals ==
    <<[stream |-> "out", kind |-> "text", text |-> "Available animals:\n"]>> \o
    [i \in 1..Len(animal_variants) |->
        [stream |-> "out", kind |-> "list",
         key |-> key(animal_variants[i]),
         description |-> description(animal_variants[i])]]

----------------------------------------------------------------------------
(* The command lines tried *)

\* Names given to --type: keys, and names of no species at edit distance
\* 1, 2, 3 and 6 from the nearest key.
Names == {cat, hamster, small_dog,
          <<"k", "a", "t">>, <<"k", "A", "t">>, <<"e", "m", "u">>,
          <<"x", "y", "z", "1", "2", "3">>}

\* Values given to --age, in tenths of a year: a negative one, zero, the
\* hamster's 60% and 80% of a lifespan (1.8, 2.4), both sides of 1.5
\* lifespans of the hamster (4.5, 4.6), and more than 1.5 lifespans of the
\* cat and the small dog (27.1).
Ages == {-1, 0, 18, 24, 45, 46, 271}

\* Terminal widths: one column more than the gutter of a single species (and
\* less than the gutter of two species with a long key), partly wide, and
\* wide enough for the full bar.
TermWidths == {19, 40, 200}

\* The terminal widths of the runs with --json, which never read them.
JsonWidths == {80}

\* Non-empty lists of at most n names.
NameLists(n) == UNION {[1..k -> Names] : k \in 1..n}

ArgsSet ==
    [animal : {None} \cup {Some(l) : l \in NameLists(MaxNames)},
     age : {None} \cup {Some(a) : a \in Ages},
     list : {FALSE},
     json : BOOLEAN,
     no_color : BOOLEAN]
    \cup
    [animal : {None, Some(<<cat>>)},
     age : {None, Some(-10), Some(20)},
     list : {TRUE},
     json : BOOLEAN,
     no_color : BOOLEAN]

Ok == [kind |-> "Ok"]
Pending == [kind |-> "Pending"]

\* The harnesses' variables while the program runs.
FnIdle ==
    /\ fn_animal = "Cat" /\ fn_a1 = 0 /\ fn_a2 = 0 /\ fn_h1 = None /\ fn_h2 = None

LkIdle ==
    /\ lk_name = <<>> /\ lk_result = None

Init ==
    /\ args \in ArgsSet
    /\ term_width \in (IF args.json THEN JsonWidths ELSE TermWidths)
    /\ pc = "main_inner"
    /\ idx = 0
    /\ results = <<>>
    /\ label_width = 0
    /\ error = Pending
    /\ io = <<>>
    /\ exit_code = -1
    /\ FnIdle
    /\ LkIdle

----------------------------------------------------------------------------
(* main_inner, run_calc, main *)

\* main_inner, up to the call of run_calc
main_inner ==
    /\ pc = "main_inner"
    /\ IF args.list
       THEN /\ io' = io \o list_animals
            /\ error' = Ok
            /\ pc' = "main"
            /\ UNCHANGED idx
       ELSE IF ~(args.animal.some /\ args.age.some)
       THEN /\ error' = [kind |-> "MissingArgs"]
            /\ pc' = "main"
            /\ UNCHANGED <<io, idx>>
       ELSE IF age_is_negative(args.age.val)
       THEN /\ error' = [kind |-> "InvalidAge", arg |-> "Age cannot be negative"]
            /\ pc' = "main"
            /\ UNCHANGED <<io, idx>>
       ELSE /\ pc' = "run_calc_loop"
            /\ idx' = 1
            /\ UNCHANGED <<io, error>>
    /\ UNCHANGED <<args, term_width, results, label_width, exit_code>>
    /\ UNCHANGED <<fnVars, lkVars>>

\* The body of run_calc's first loop with an unknown name skipped instead
\* of returned as an error.
run_calc_iter_skip(animal_str) ==
    LET animal_lower == to_lowercase(animal_str)
        found == from_str(animal_lower)
    IN  IF ~found.some
        THEN /\ idx' = idx + 1
             /\ UNCHANGED <<error, pc, io, results>>
        ELSE LET animal_type == found.val
                 animal_max == max_lifespan(animal_type)
                 age == args.age.val
                 warning == IF exceeds_lifespan(age, animal_max)
                            THEN <<[stream |-> "err", kind |-> "warning", age |-> age,
                                    animal |-> animal_str, animal_max |-> animal_max]>>
                            ELSE <<>>
                 human_age == rounded_human_age(animal_type, age)
             IN  /\ IF args.json
                    THEN /\ io' = io \o warning
                                     \o <<print_json(animal_str, age, human_age, animal_max)>>
                         /\ UNCHANGED results
                    ELSE /\ io' = io \o warning
                         /\ results' = Append(results,
                                [display_label |-> animal_str,
                                 chart_label |-> key(animal_type),
                                 human_age |-> human_age,
                                 animal_max |-> animal_max])
                 /\ idx' = idx + 1
                 /\ UNCHANGED <<error, pc>>

\* The body of run_calc's first loop with the JSON object printed ahead of
\* the warning.
run_calc_iter_json_first(animal_str) ==
    LET animal_lower == to_lowercase(animal_str)
        found == from_str(animal_lower)
    IN  IF ~found.some
        THEN /\ error' = [kind |-> "UnknownAnimal", arg |-> animal_str]
             /\ pc' = "main"
             /\ UNCHANGED <<io, results, idx>>
        ELSE LET animal_type == found.val
                 animal_max == max_lifespan(animal_type)
                 age == args.age.val
                 warning == IF exceeds_lifespan(age, animal_max)
                            THEN <<[stream |-> "err", kind |-> "warning", age |-> age,
                                    animal |-> animal_str, animal_max |-> animal_max]>>
                            ELSE <<>>
                 human_age == rounded_human_age(animal_type, age)
             IN  /\ IF args.json
                    THEN /\ io' = io \o <<print_json(animal_str, age, human_age, animal_max)>>
                                     \o warning
                         /\ UNCHANGED results
                    ELSE /\ io' = io \o warning
                         /\ results' = Append(results,
                                [display_label |-> animal_str,
                                 chart_label |-> key(animal_type),
                                 human_age |-> human_age,
                                 animal_max |-> animal_max])
                 /\ idx' = idx + 1
                 /\ UNCHANGED <<error, pc>>

\* The body of run_calc's first loop, for the name animal_str: the lookup
\* (`?` returns UnknownAnimal with the name as given), the warning, the
\* conversion, and the JSON object or the pushed row.
run_calc_iter(animal_str) ==
    LET animal_lower == to_lowercase(animal_str)
        found == from_str(animal_lower)
    IN  IF ~found.some
        THEN /\ error' = [kind |-> "UnknownAnimal", arg |-> animal_str]
             /\ pc' = "main"
             /\ UNCHANGED <<io, results, idx>>
        ELSE LET animal_type == found.val
                 animal_max == max_lifespan(animal_type)
                 age == args.age.val
                 warning == IF exceeds_lifespan(age, animal_max)
                            THEN <<[stream |-> "err", kind |-> "warning", age |-> age,
                                    animal |-> animal_str, animal_max |-> animal_max]>>
                            ELSE <<>>
                 human_age == rounded_human_age(animal_type, age)
             IN  /\ IF args.json
                    THEN /\ io' = io \o warning
                                     \o <<print_json(animal_str, age, human_age, animal_max)>>
                         /\ UNCHANGED results
                    ELSE /\ io' = io \o warning
                         /\ results' = Append(results,
                                [display_label |-> animal_str,
                                 chart_label |-> key(animal_type),
                                 human_age |-> human_age,
                                 animal_max |-> animal_max])
                 /\ idx' = idx + 1
                 /\ UNCHANGED <<error, pc>>

\* One iteration of `for animal_str in animals`
run_calc_loop ==
    /\ pc = "run_calc_loop"
    /\ idx <= Len(args.animal.val)
    /\ run_calc_iter(args.animal.val[idx])
    /\ UNCHANGED <<args, term_width, label_width, exit_code>>
    /\ UNCHANGED <<fnVars, lkVars>>

\* The end of the first loop: `if args.json { return Ok(()) }`
run_calc_loop_end ==
    /\ pc = "run_calc_loop"
    /\ idx > Len(args.animal.val)
    /\ IF args.json
       THEN /\ error' = Ok
            /\ pc' = "main"
       ELSE /\ pc' = "run_calc_report"
            /\ UNCHANGED error
    /\ UNCHANGED <<args, term_width, idx, results, label_width, io, exit_code>>
    /\ UNCHANGED <<fnVars, lkVars>>

\* run_calc's max_label_len, then label_width
compute_label_width(rows) ==
    LET RECURSIVE widest(_, _)
        widest(i, m) ==
            IF i > Len(rows)
            THEN m
            ELSE widest(i + 1, Max(Max(m, Len(human_label(rows[i].chart_label))),
                                   Len(rows[i].chart_label)))
        max_label_len ==
            IF Len(rows) = 1
            THEN Max(Max(0, Len(Human)), Len(rows[1].chart_label))
            ELSE widest(1, 0)
    IN  Max(max_label_len, 10)

\* The summary lines, the early return on no results, the label width and
\* the "Life Progress:" header.
run_calc_report ==
    /\ pc = "run_calc_report"
    /\ LET summary == [i \in 1..Len(results) |->
                          [stream |-> "out", kind |-> "summary",
                           age |-> args.age.val,
                           display_label |-> results[i].display_label,
                           human_age |-> results[i].human_age]]
       IN  IF results = <<>>
           THEN /\ io' = io \o summary
                /\ error' = Ok
                /\ pc' = "main"
                /\ UNCHANGED <<label_width, idx>>
           ELSE /\ io' = io \o summary
                       \o <<[stream |-> "out", kind |-> "text",
                             text |-> "\nLife Progress:\n"]>>
                /\ label_width' = compute_label_width(results)
                /\ idx' = 1
                /\ pc' = "run_calc_bars"
                /\ UNCHANGED error
    /\ UNCHANGED <<args, term_width, results, exit_code>>
    /\ UNCHANGED <<fnVars, lkVars>>

\* One iteration of `for (idx, result) in results.iter().enumerate()`: the
\* human bar, the species' bar, and a blank line between two species.
run_calc_bars ==
    /\ pc = "run_calc_bars"
    /\ idx <= Len(results)
    /\ LET result == results[idx]
           human_bar ==
               IF Len(results) = 1
               THEN show_lifespan_bars(Human, Min(result.human_age, HUMAN_MAX),
                        HUMAN_MAX, args.no_color, label_width, term_width)
               ELSE show_lifespan_bars(human_label(result.chart_label),
                        Min(result.human_age, HUMAN_MAX),
                        HUMAN_MAX, args.no_color, label_width, term_width)
           animal_bar ==
               show_lifespan_bars(result.chart_label,
                   Min(args.age.val, result.animal_max * 10),
                   result.animal_max * 10, args.no_color, label_width, term_width)
           blank == IF idx < Len(results)
                    THEN <<[stream |-> "out", kind |-> "blank"]>>
                    ELSE <<>>
       IN  io' = io \o <<human_bar, animal_bar>> \o blank
    /\ idx' = idx + 1
    /\ UNCHANGED <<args, term_width, pc, results, label_width, error, exit_code>>
    /\ UNCHANGED <<fnVars, lkVars>>

\* The closing println!() of run_calc and its Ok(())
run_calc_end ==
    /\ pc = "run_calc_bars"
    /\ idx > Len(results)
    /\ io' = Append(io, [stream |-> "out", kind |-> "blank"])
    /\ error' = Ok
    /\ pc' = "main"
    /\ UNCHANGED <<args, term_width, idx, results, label_width, exit_code>>
    /\ UNCHANGED <<fnVars, lkVars>>

\* main: the diagnostic and exit(1) on an error, else the normal return
main ==
    /\ pc = "main"
    /\ IF error.kind = "Ok"
       THEN /\ exit_code' = 0
            /\ UNCHANGED io
       ELSE /\ IF error.kind = "UnknownAnimal"
               THEN io' = Append(io, [stream |-> "err", kind |-> "unknown",
                                      animal |-> error.arg,
                                      suggestion |-> suggest_animal(error.arg)])
               ELSE io' = Append(io, [stream |-> "err", kind |-> "error",
                                      err |-> error])
            /\ exit_code' = 1
    /\ pc' = "exit"
    /\ UNCHANGED <<args, term_width, idx, results, label_width, error>>
    /\ UNCHANGED <<fnVars, lkVars>>

Next ==
    \/ main_inner
    \/ run_calc_loop
    \/ run_calc_loop_end
    \/ run_calc_report
    \/ run_calc_bars
    \/ run_calc_end
    \/ main

Spec == Init /\ [][Next]_vars

----------------------------------------------------------------------------
(* Animal::human_years on its own: a species and two ages, a1 <= a2 *)

\* The program's variables while a harness runs.
ProgIdle ==
    /\ args = [animal |-> None, age |-> None, list |-> FALSE, json |-> FALSE,
               no_color |-> FALSE]
    /\ term_width \in JsonWidths
    /\ idx = 0
    /\ results = <<>>
    /\ label_width = 0
    /\ error = Pending
    /\ io = <<>>
    /\ exit_code = -1

InitFn ==
    /\ fn_animal \in Animal
    /\ fn_a1 \in 0..MaxAge10
    /\ fn_a2 \in fn_a1..MaxAge10
    /\ fn_h1 = None
    /\ fn_h2 = None
    /\ pc = "convert"
    /\ ProgIdle
    /\ LkIdle

convert ==
    /\ pc = "convert"
    /\ fn_h1' = Some(human_years(fn_animal, fn_a1))
    /\ fn_h2' = Some(human_years(fn_animal, fn_a2))
    /\ pc' = "converted"
    /\ UNCHANGED <<fn_animal, fn_a1, fn_a2>>
    /\ UNCHANGED <<progVars, lkVars>>

NextFn == convert

SpecFn == InitFn /\ [][NextFn]_vars

----------------------------------------------------------------------------
(* Animal::from_str on its own *)

\* The upper-case form of a character: of a lower-case letter its upper-case
\* letter, of any other character itself.
UpperOf(c) ==
    IF \E i \in 1..Len(LowerChars) : LowerChars[i] = c
    THEN UpperChars[CHOOSE i \in 1..Len(LowerChars) : LowerChars[i] = c]
    ELSE c

\* Every spelling of the key k in upper and lower case.
CaseVariants(k) ==
    {[i \in 1..Len(k) |-> IF i \in S THEN UpperOf(k[i]) ELSE k[i]] :
        S \in SUBSET (1..Len(k))}

SmallAlphabet == {"c", "a", "t", "C", "A", "T", "k", "x"}

\* Names near a key that are no spelling of it.
NearMisses ==
    {<<"c", "a", "t", "s">>, <<"h", "a", "m", "s", "t", "e">>,
     <<"s", "m", "a", "l", "l", "d", "o", "g">>,
     <<"s", "m", "a", "l", "l", " ", "d", "o", "g">>,
     <<"S", "M", "A", "L", "L", "-", "D", "O", "G">>,
     <<"b", "i", "g", "_", "d", "o", "g", "_">>,
     <<"_", "p", "i", "g">>, <<"d", "o", "g">>, <<"P", "1", "G">>,
     <<"x", "y", "z", "1", "2", "3">>}

LookupNames ==
    UNION {CaseVariants(key(a)) : a \in Animal}
    \cup UNION {[1..n -> SmallAlphabet] : n \in 0..MaxLen}
    \cup NearMisses

InitLk ==
    /\ lk_name \in LookupNames
    /\ lk_result = None
    /\ pc = "lookup"
    /\ ProgIdle
    /\ FnIdle

lookup ==
    /\ pc = "lookup"
    /\ lk_result' = from_str(lk_name)
    /\ pc' = "looked_up"
    /\ UNCHANGED lk_name
    /\ UNCHANGED <<progVars, fnVars>>

NextLk == lookup

SpecLk == InitLk /\ [][NextLk]_vars

----------------------------------------------------------------------------
(* Vocabulary of the properties *)

\* n is a spelling of the key k in upper and lower case.
IsCaseVariant(n, k) ==
    /\ Len(n) = Len(k)
    /\ \A i \in 1..Len(k) : n[i] = k[i] \/ n[i] = UpperOf(k[i])

\* n names a species of the table.
Known(n) == \E a \in Animal : IsCaseVariant(n, key(a))

\* The species n names.
SpeciesOf(n) == CHOOSE a \in Animal : IsCaseVariant(n, key(a))

\* The run is a calculation: no --list, --type and --age both given.
CalcRun == ~args.list /\ args.animal.some /\ args.age.some

\* The position of the first name of --type that names no species, 0 if
\* every name does.
FirstUnknown ==
    IF \A i \in 1..Len(args.animal.val) : Known(args.animal.val[i])
    THEN 0
    ELSE CHOOSE i \in 1..Len(args.animal.val) :
             /\ ~Known(args.animal.val[i])
             /\ \A j \in 1..(i - 1) : Known(args.animal.val[j])

IsOut(e) == e.stream = "out"
IsWarning(e) == e.kind = "warning"
IsReport(e) == e.kind \in {"json", "summary"}
IsBar(e) == e.kind = "bar"
NotEscape(t) == t \notin EscapeCodes

\* More than 1.5 lifespans of the species the name n names.
FarBeyondLifespan(n) == 2 * args.age.val > 3 * (10 * max_lifespan(SpeciesOf(n)))

\* The least number of the non-empty set ds.
Least(ds) == CHOOSE d \in ds : \A e \in ds : d <= e

\* The least edit distance from the name n to a key of the table.
MinDistance(n) == Least({levenshtein(n, key(a)) : a \in Animal})

\* A label without the padding that follows it.
RECURSIVE Unpad(_)
Unpad(l) ==
    IF l # <<>> /\ l[Len(l)] = " " THEN Unpad(SubSeq(l, 1, Len(l) - 1)) ELSE l

----------------------------------------------------------------------------
(* Properties of the run: specification Spec *)

\* C1.  Fail-fast resolution.  In a calculation with a non-negative age whose
\* first unknown name stands at position f: nothing is ever written to the
\* primary output but the JSON objects of the names before f, in their
\* order; no warning is ever written but for names before f; no row is ever
\* kept but for names before f; and the run ends with UnknownAnimal carrying
\* the name at f as given, exit code 1, the JSON objects of all f - 1 names
\* before it on the primary output under --json and nothing there otherwise.
C1_FailFast ==
    (CalcRun /\ args.age.val >= 0 /\ FirstUnknown > 0) =>
        LET f == FirstUnknown
            names == args.animal.val
            outs == SelectSeq(io, IsOut)
            warns == SelectSeq(io, IsWarning)
            warned == SelectSeq([i \in 1..(f - 1) |-> names[i]], FarBeyondLifespan)
        IN  /\ Len(outs) <= f - 1
            /\ \A i \in 1..Len(outs) : outs[i].kind = "json" /\ outs[i].animal = names[i]
            /\ args.json \/ outs = <<>>
            /\ Len(warns) <= Len(warned)
            /\ \A i \in 1..Len(warns) : warns[i].animal = warned[i]
            /\ Len(results) <= f - 1
            /\ \A i \in 1..Len(results) : results[i].display_label = names[i]
            /\ pc = "exit" =>
                   /\ error = [kind |-> "UnknownAnimal", arg |-> names[f]]
                   /\ exit_code = 1
                   /\ Len(outs) = (IF args.json THEN f - 1 ELSE 0)
                   /\ Len(warns) = Len(warned)

\* C1, witness: a run under --json ended on an unknown second name, with the
\* first name's JSON object on the primary output.
C1_Witness ==
    /\ pc = "exit"
    /\ CalcRun /\ args.json
    /\ FirstUnknown = 2
    /\ error.kind = "UnknownAnimal"
    /\ exit_code = 1
    /\ Len(SelectSeq(io, IsOut)) = 1

\* C2.  A negative age always fails with InvalidAge.  In a calculation with
\* age < 0, whatever the names: no species is ever resolved (run_calc is never
\* entered, no row kept), nothing is ever written to the primary output, no
\* warning is ever written, and the run ends with InvalidAge, exit code 1 and
\* the one diagnostic of that error.
C2_NegativeAge ==
    (CalcRun /\ args.age.val < 0) =>
        /\ pc \in {"main_inner", "main", "exit"}
        /\ idx = 0
        /\ results = <<>>
        /\ SelectSeq(io, IsOut) = <<>>
        /\ SelectSeq(io, IsWarning) = <<>>
        /\ pc # "main_inner" => error.kind = "InvalidAge"
        /\ pc = "exit" =>
               /\ exit_code = 1
               /\ io = <<[stream |-> "err", kind |-> "error", err |-> error]>>

\* C2, witness: a run with a negative age and a known and an unknown name
\* ended with InvalidAge and exit code 1.
C2_Witness ==
    /\ pc = "exit"
    /\ CalcRun /\ args.age.val < 0
    /\ args.animal.val = <<cat, <<"k", "a", "t">>>>
    /\ error.kind = "InvalidAge"
    /\ exit_code = 1

\* C7.  The suggestion.  A run ended on an unknown name has, as its last
\* output, the diagnostic of that name; the diagnostic carries a suggestion
\* exactly when the least edit distance from the name to a key is less than
\* 3; the suggestion is a key at that least distance ("kat" suggests "cat",
\* "xyz123" nothing); and the run exits with code 1 having computed nothing
\* for the name: rows and JSON objects exist for the names before it only.
C7_Suggestion ==
    (pc = "exit" /\ error.kind = "UnknownAnimal") =>
        LET e == io[Len(io)]
            n == error.arg
            least == MinDistance(error.arg)
        IN  /\ e.stream = "err" /\ e.kind = "unknown" /\ e.animal = n
            /\ e.suggestion.some <=> least < 3
            /\ e.suggestion.some =>
                   /\ \E a \in Animal : e.suggestion.val = key(a)
                   /\ levenshtein(n, e.suggestion.val) = least
            /\ n = <<"k", "a", "t">> => e.suggestion = Some(cat)
            /\ n = <<"x", "y", "z", "1", "2", "3">> => e.suggestion = None
            /\ exit_code = 1
            /\ Len(results) + Len(SelectSeq(io, IsReport)) = FirstUnknown - 1

\* C7, witness: a run ended on "kAt", at distance 2 from "cat", with "cat"
\* suggested.
C7_Witness ==
    /\ pc = "exit"
    /\ error = [kind |-> "UnknownAnimal", arg |-> <<"k", "A", "t">>]
    /\ io[Len(io)].suggestion = Some(cat)
    /\ exit_code = 1

\* C8.  Every bar line has exactly bar_width cells between its two '|'.  With
\* bar_width = min(50, max(0, terminal columns - (label width + 8))): pct is
\* in [0, 1], filled = floor(pct * bar_width) is in 0..bar_width, empty =
\* bar_width - filled is not negative, and the bar, colour codes aside, is
\* filled glyphs followed by empty spaces.
C8_BarCells ==
    \A k \in 1..Len(io) :
        IsBar(io[k]) =>
            LET e == io[k]
                gap == term_width - (label_width + 8)
                bar_width == Min(50, Max(0, gap))
                filled == (e.pct.num * bar_width) \div e.pct.den
                empty == bar_width - filled
            IN  /\ 0 <= e.pct.num /\ e.pct.num <= e.pct.den
                /\ 0 <= filled /\ filled <= bar_width
                /\ empty >= 0
                /\ SelectSeq(e.bar, NotEscape) = repeat("=", filled) \o repeat(" ", empty)

\* C9.  The colour of a bar.  With colour enabled every bar line starts with
\* red when pct >= 0.8, yellow when 0.6 <= pct < 0.8, cyan otherwise, ends
\* with the reset and has no other escape sequence; with --no-color it has
\* none at all; and either way the line, its escape sequences removed, is
\* the line printed for the same label, value and maximum without colour.
C9_Colour ==
    \A k \in 1..Len(io) :
        IsBar(io[k]) =>
            LET e == io[k]
                n == Len(e.bar)
                expected == IF e.pct.num * 10 >= e.pct.den * 8 THEN RED[1]
                            ELSE IF e.pct.num * 10 >= e.pct.den * 6 THEN YELLOW[1]
                            ELSE CYAN[1]
            IN  /\ ~args.no_color =>
                       /\ e.bar[1] = expected
                       /\ e.bar[n] = RESET[1]
                       /\ \A i \in 2..(n - 1) : NotEscape(e.bar[i])
                /\ args.no_color => \A i \in 1..n : NotEscape(e.bar[i])
                /\ [e EXCEPT !.bar = SelectSeq(e.bar, NotEscape)]
                       = show_lifespan_bars(Unpad(e.label), e.pct.num, e.pct.den,
                                            TRUE, label_width, term_width)

\* C9, witness: a finished coloured report with a red bar at exactly 80%
\* and a yellow bar.
C9_Witness ==
    /\ pc = "exit"
    /\ ~args.no_color
    /\ \E k \in 1..Len(io) :
           /\ IsBar(io[k])
           /\ io[k].pct.num * 10 = io[k].pct.den * 8
           /\ io[k].bar[1] = RED[1]
    /\ \E k \in 1..Len(io) : IsBar(io[k]) /\ io[k].bar[1] = YELLOW[1]

\* C10.  The lifespan warning is a soft bound.  In a calculation with a
\* non-negative age whose names are all known: each warning written stands
\* before the report of its species (under --json, after exactly the JSON
\* objects of the names before it; otherwise before every summary line); and
\* at the end the warnings are those of the names whose species has
\* age > 1.5 * max lifespan, in order and no others, every name has its
\* report with the human age the conversion gives, and the exit code is 0.
C10_Warning ==
    (CalcRun /\ args.age.val >= 0 /\ FirstUnknown = 0) =>
        LET names == args.animal.val
            age == args.age.val
            warned == SelectSeq([i \in 1..Len(names) |-> i],
                                LAMBDA i : FarBeyondLifespan(names[i]))
            warns == SelectSeq(io, IsWarning)
            reports == SelectSeq(io, IsReport)
        IN  /\ \A k \in 1..Len(io) :
                   IsWarning(io[k]) =>
                       LET j == Len(SelectSeq(SubSeq(io, 1, k), IsWarning))
                           before == Len(SelectSeq(SubSeq(io, 1, k), IsReport))
                       IN  /\ j <= Len(warned)
                           /\ io[k].stream = "err"
                           /\ io[k].animal = names[warned[j]]
                           /\ before = (IF args.json THEN warned[j] - 1 ELSE 0)
            /\ pc = "exit" =>
                   /\ warns = [j \in 1..Len(warned) |->
                                  [stream |-> "err", kind |-> "warning", age |-> age,
                                   animal |-> names[warned[j]],
                                   animal_max |-> max_lifespan(SpeciesOf(names[warned[j]]))]]
                   /\ Len(reports) = Len(names)
                   /\ \A i \in 1..Len(names) :
                          /\ reports[i].stream = "out"
                          /\ reports[i].human_age =
                                 round_div10(human_years(SpeciesOf(names[i]), age))
                   /\ exit_code = 0

\* C10, witness: a run under --json at age 4.6 for a cat and a hamster ended
\* with exit code 0, the hamster's warning written between the two JSON
\* objects and none for the cat.
C10_Witness ==
    /\ pc = "exit"
    /\ args.json
    /\ args.animal = Some(<<cat, hamster>>)
    /\ args.age = Some(46)
    /\ exit_code = 0
    /\ Len(io) = 3
    /\ io[1].kind = "json" /\ io[2].kind = "warning" /\ io[3].kind = "json"

----------------------------------------------------------------------------
(* Properties of the conversion: specification SpecFn *)

TwoPhase == {"SmallDog", "MediumDog", "BigDog", "Cat", "Rabbit"}

\* The constants of the two-phase species, times ten.
rate_young(a) ==
    CASE a = "SmallDog" -> 125 [] a = "MediumDog" -> 105 [] a = "BigDog" -> 90
      [] a = "Cat" -> 125 [] a = "Rabbit" -> 120

base_at_2(a) ==
    CASE a = "SmallDog" -> 250 [] a = "MediumDog" -> 210 [] a = "BigDog" -> 180
      [] a = "Cat" -> 250 [] a = "Rabbit" -> 240

rate_adult(a) ==
    CASE a = "SmallDog" -> 45 [] a = "MediumDog" -> 50 [] a = "BigDog" -> 70
      [] a = "Cat" -> 40 [] a = "Rabbit" -> 40

\* The constants of the single-phase species, times ten.
offset(a) == IF a = "Horse" THEN 65 ELSE 0

rate(a) ==
    CASE a = "Horse" -> 40 [] a = "Pig" -> 50 [] a = "Parakeet" -> 50
      [] a = "Goldfish" -> 50 [] a = "Snake" -> 53 [] a = "Hamster" -> 250

\* The stated formula, in hundredths, of an age in tenths.
Formula(a, age) ==
    IF a \in TwoPhase
    THEN IF age <= 20
         THEN age * rate_young(a)
         ELSE base_at_2(a) * 10 + (age - 20) * rate_adult(a)
    ELSE offset(a) * 10 + age * rate(a)

\* C3, as stated.  For every species the human-equivalent age of age 0 is 0.
C3_ZeroAtZero ==
    (pc = "converted" /\ fn_a1 = 0) => fn_h1 = Some(0)

\* C3, amended.  The human-equivalent age of age 0 is 0 for every species but
\* the horse, and 6.5, its offset, for the horse.
C3_ZeroAtZeroButHorse ==
    (pc = "converted" /\ fn_a1 = 0) =>
        fn_h1 = (IF fn_animal = "Horse" THEN Some(650) ELSE Some(0))

\* C3, witness: the horse converted at age 0 to 6.5.
C3_Witness ==
    /\ pc = "converted"
    /\ fn_animal = "Horse"
    /\ fn_a1 = 0
    /\ fn_h1 = Some(650)

\* C4.  human_years is monotonically non-decreasing: for ages a1 <= a2 the
\* value at a1 is at most the value at a2; and a two-phase species has no
\* jump at the breakpoint: its value at 2 is 2 * rate_young, and from 2 on it
\* grows from that value by rate_adult per year.
C4_Monotone ==
    pc = "converted" =>
        /\ fn_a1 <= fn_a2
        /\ fn_h1.val <= fn_h2.val
        /\ (fn_animal \in TwoPhase /\ fn_a1 = 20) =>
               /\ fn_h1.val = 20 * rate_young(fn_animal)
               /\ fn_h2.val - fn_h1.val = (fn_a2 - 20) * rate_adult(fn_animal)

\* C4, witness: the cat converted at 2.0 and at 2.1, to 25.0 and 25.4.
C4_Witness ==
    /\ pc = "converted"
    /\ fn_animal = "Cat"
    /\ fn_a1 = 20 /\ fn_a2 = 21
    /\ fn_h1 = Some(2500) /\ fn_h2 = Some(2540)

\* C5.  human_years returns the value of the stated formula with the stated
\* constants, for every species and age; cat at 1.0 gives 12.5, cat at 3.0
\* gives 29.0, horse at 10.0 gives 46.5.
C5_Formula ==
    pc = "converted" =>
        /\ fn_h1.val = Formula(fn_animal, fn_a1)
        /\ fn_h2.val = Formula(fn_animal, fn_a2)
        /\ (fn_animal = "Cat" /\ fn_a1 = 10) => fn_h1.val = 1250
        /\ (fn_animal = "Cat" /\ fn_a1 = 30) => fn_h1.val = 2900
        /\ (fn_animal = "Horse" /\ fn_a1 = 100) => fn_h1.val = 4650

\* C5, witness: the cat converted at 1.0 and 3.0, to 12.5 and 29.0.
C5_Witness ==
    /\ pc = "converted"
    /\ fn_animal = "Cat"
    /\ fn_a1 = 10 /\ fn_a2 = 30
    /\ fn_h1.val = 1250 /\ fn_h2.val = 2900

----------------------------------------------------------------------------
(* Properties of the lookup: specification SpecLk *)

\* C6.  The lookup is case-insensitive and total.  A name that is a spelling
\* in upper and lower case of a key resolves to the species of that key, as
\* the lower-case key itself does; every other name resolves to nothing.
C6_Lookup ==
    pc = "looked_up" =>
        /\ \A a \in Animal :
               IsCaseVariant(lk_name, key(a)) =>
                   /\ lk_result = Some(a)
                   /\ lk_result = from_str(key(a))
                   /\ key(lk_result.val) = key(a)
        /\ ~Known(lk_name) => lk_result = None

\* C6, witness: "sMaLl_DoG" resolved to the small dog.
C6_Witness ==
    /\ pc = "looked_up"
    /\ lk_name = <<"s", "M", "a", "L", "l", "_", "D", "o", "G">>
    /\ lk_result = Some("SmallDog")

====
